---- MODULE Spec2Model ----
(***************************************************************************)
(* A model of metro's native display kernels:                              *)
(*   _fast_plot_native.pyx  the rasterization surface, its clipped         *)
(*                          primitives, plot/bars and stack;               *)
(*   separate               binning-by-slice of a 1-D sample stream;       *)
(*   add_pixel              the histogram image accumulator.               *)
(*                                                                         *)
(* Doubles are modelled exactly: data values and axis starts are integers, *)
(* scale factors and distances are rationals <<num, den>> with den > 0,    *)
(* and a C cast <int>(double) truncates toward zero.                       *)
(***************************************************************************)
EXTENDS Integers, Sequences, FiniteSets, TLC

VARIABLES
    surface,    \* the surface struct (all fields but ptr)
    buf,        \* the image s.ptr points to, a flat array of unsigned char
    geomSet,    \* surface_set_geometry has been called (s.ptr is valid)
    viewSet,    \* surface_set_view has been called
    cleared,    \* surface_clear has run since the geometry was last set
    oob,        \* some draw_pixel wrote outside the image buffer
    op,         \* name of the last operation
    args,       \* its arguments
    err,        \* its outcome: "ok" or "ValueError"
    prims,      \* primitive calls (draw_line, ...) the last operation issued
    calls,      \* draw_pixel calls the last operation issued, in order
    reads,      \* sample indices the last plot/bars read
    trace,      \* whether args, prims, calls and reads are recorded
    input,      \* the array a kernel (stack, separate) reads
    output,     \* the array it writes
    written,    \* the cells <<row, column>> of output its last call stored
    mtx,        \* add_pixel's count matrix
    img,        \* add_pixel's image buffer
    kop,        \* the last kernel call
    kargs,      \* its scalar arguments
    ret         \* what it returned

surfVars == <<surface, buf, geomSet, viewSet, cleared, oob, op, args, err,
              prims, calls, reads, trace>>

kernVars == <<input, output, written, mtx, img, kop, kargs, ret>>

vars == <<surfVars, kernVars>>

----------------------------------------------------------------------------
(* C arithmetic *)

\* <int>(num/den) for den > 0: truncation toward zero
IntCast(num, den) ==
    IF num >= 0 THEN num \div den ELSE -((-num) \div den)

Abs(a) == IF a < 0 THEN -a ELSE a

Min(a, b) == IF a < b THEN a ELSE b

\* the later of two values, whatever their order
LastValue(a, b) == a

Max(a, b) == IF a > b THEN a ELSE b

\* store of an int into an unsigned char
UChar(c) == c % 256

----------------------------------------------------------------------------
(* The surface and its primitives *)

\* a clip test that lets the column right of max_x through
ClipPastRight(s, x, y) ==
    x >= s.min_x /\ x <= s.max_x + 1 /\ y >= s.min_y /\ y <= s.max_y

\* the clip test of draw_pixel
Clip(s, x, y) ==
    x >= s.min_x /\ x <= s.max_x /\ y >= s.min_y /\ y <= s.max_y

\* an index without the vertical flip
PixelIndexNoFlip(s, x, y) == y * s.line_length + x

\* the element of s.ptr that draw_pixel addresses
PixelIndex(s, x, y) == (s.height_complement - y) * s.line_length + x

\* what a draw_pixel call does: whether it stores, where, and what
PixelWrite(s, x, y, c) ==
    [hit |-> Clip(s, x, y), idx |-> PixelIndex(s, x, y), val |-> UChar(c)]

\* draw_pixel on the machine state m = [buf, oob]; a store outside the
\* image leaves the image as it is and is recorded in oob
draw_pixel(s, m, x, y, c) ==
    LET w == PixelWrite(s, x, y, c)
    IN IF w.hit
       THEN IF w.idx \in DOMAIN m.buf
            THEN [m EXCEPT !.buf[w.idx] = w.val]
            ELSE [m EXCEPT !.oob = TRUE]
       ELSE m

\* a draw_pixel call
Px(x, y, c) == [x |-> x, y |-> y, c |-> c]

\* the positions lo..hi of a "for v from lo <= v <= hi by 1" loop
Range(lo, hi) == [k \in 1..(hi - lo + 1) |-> lo + k - 1]

RECURSIVE Flatten(_)
Flatten(ss) == IF ss = <<>> THEN <<>> ELSE Head(ss) \o Flatten(Tail(ss))

\* draw_rect: the draw_pixel calls it makes
draw_rect(x1, y1, w, h, c) ==
    LET x2 == x1 + w - 1
        y2 == y1 + h - 1
        xsq == Range(x1, x2)
        ysq == Range(y1 + 1, y2 - 1)
    IN [k \in 1..(2 * Len(xsq)) |->
          Px(xsq[(k + 1) \div 2], IF k % 2 = 1 THEN y1 ELSE y2, c)]
       \o [k \in 1..(2 * Len(ysq)) |->
          Px(IF k % 2 = 1 THEN x1 ELSE x2, ysq[(k + 1) \div 2], c)]

\* the rows that fill_rect's inner loop visits
FillRows(y1, y2) == Range(y1 + 1, y2 - 1)

\* fill_rect: the draw_pixel calls it makes
fill_rect(x1, y1, w, h, c) ==
    LET x2 == x1 + w - 1
        y2 == y1 + h - 1
        xsq == Range(x1, x2)
        ysq == FillRows(y1, y2)
        ny == Len(ysq)
    IN [k \in 1..(Len(xsq) * ny) |->
          Px(xsq[((k - 1) \div ny) + 1], ysq[((k - 1) % ny) + 1], c)]

\* draw_square: a draw_rect centred on x/y; >> 1 is a floor division
draw_square(x, y, l, c) ==
    draw_rect(x - ((l - 1) \div 2), y - ((l - 1) \div 2), l, l, c)

\* a loop over x that never steps y
RECURSIVE BresenhamXFlat(_, _, _, _, _, _, _, _)
BresenhamXFlat(x, y, x2, ix, iy, dx, dy, error) ==
    IF x = x2
    THEN << [x |-> x, y |-> y, error |-> error] >>
    ELSE << [x |-> x, y |-> y, error |-> error] >>
         \o BresenhamXFlat(x + ix, y, x2, ix, iy, dx, dy, error + dy)

\* the Bresenham loop over x (dx >= dy); dx and dy are already doubled.
\* Each element is the loop state at a draw_pixel call.
RECURSIVE BresenhamX(_, _, _, _, _, _, _, _)
BresenhamX(x, y, x2, ix, iy, dx, dy, error) ==
    IF x = x2
    THEN << [x |-> x, y |-> y, error |-> error] >>
    ELSE LET minor == error >= 0
             ny == IF minor THEN y + iy ELSE y
             ne == (IF minor THEN error - dx ELSE error) + dy
         IN << [x |-> x, y |-> y, error |-> error] >>
            \o BresenhamX(x + ix, ny, x2, ix, iy, dx, dy, ne)

\* the Bresenham loop over y (dx < dy)
RECURSIVE BresenhamY(_, _, _, _, _, _, _, _)
BresenhamY(x, y, y2, ix, iy, dx, dy, error) ==
    IF y = y2
    THEN << [x |-> x, y |-> y, error |-> error] >>
    ELSE LET minor == error >= 0
             nx == IF minor THEN x + ix ELSE x
             ne == (IF minor THEN error - dy ELSE error) + dx
         IN << [x |-> x, y |-> y, error |-> error] >>
            \o BresenhamY(nx, y + iy, y2, ix, iy, dx, dy, ne)

\* a general case whose error term starts at 2*minor
BresenhamBiased(x1, y1, x2, y2) ==
    LET dx == Abs(x2 - x1)
        dy == Abs(y2 - y1)
        ix == IF x2 >= x1 THEN 1 ELSE -1
        iy == IF y2 >= y1 THEN 1 ELSE -1
    IN IF dx >= dy
       THEN BresenhamX(x1, y1, x2, ix, iy, 2 * dx, 2 * dy, 2 * dy)
       ELSE BresenhamY(x1, y1, y2, ix, iy, 2 * dx, 2 * dy, 2 * dx)

\* the loop states of draw_line's general case (dx # 0 and dy # 0)
Bresenham(x1, y1, x2, y2) ==
    LET dx == Abs(x2 - x1)
        dy == Abs(y2 - y1)
        ix == IF x2 >= x1 THEN 1 ELSE -1
        iy == IF y2 >= y1 THEN 1 ELSE -1
    IN IF dx >= dy
       THEN BresenhamX(x1, y1, x2, ix, iy, 2 * dx, 2 * dy, 2 * dy - dx)
       ELSE BresenhamY(x1, y1, y2, ix, iy, 2 * dx, 2 * dy, 2 * dx - dy)

\* the vertical case of draw_line (dx = 0): swap, then loop upwards
VerticalLine(x1, y1, y2, c) ==
    LET iy == IF y2 >= y1 THEN 1 ELSE -1
        ya == IF iy < 0 THEN y2 ELSE y1
        yb == IF iy < 0 THEN y1 ELSE y2
        ysq == Range(ya, yb)
    IN [k \in 1..Len(ysq) |-> Px(x1, ysq[k], c)]

\* a horizontal case that does not swap its ends
HorizontalLineNoSwap(x1, y1, x2, c) ==
    LET xsq == Range(x1, x2)
    IN [k \in 1..Len(xsq) |-> Px(xsq[k], y1, c)]

\* the horizontal case of draw_line (dy = 0): swap, then loop rightwards
HorizontalLine(x1, y1, x2, c) ==
    LET ix == IF x2 >= x1 THEN 1 ELSE -1
        xa == IF ix < 0 THEN x2 ELSE x1
        xb == IF ix < 0 THEN x1 ELSE x2
        xsq == Range(xa, xb)
    IN [k \in 1..Len(xsq) |-> Px(xsq[k], y1, c)]

\* draw_line: the draw_pixel calls it makes
draw_line(x1, y1, x2, y2, c) ==
    IF x2 = x1 THEN VerticalLine(x1, y1, y2, c)
    ELSE IF y2 = y1 THEN HorizontalLine(x1, y1, x2, c)
    ELSE LET b == Bresenham(x1, y1, x2, y2)
         IN [k \in 1..Len(b) |-> Px(b[k].x, b[k].y, c)]

\* the draw_pixel calls cs applied in order to the machine state m: each
\* cell holds what the last call that stored into it stored
ApplyCalls(s, m, cs) ==
    LET w(k) == PixelWrite(s, cs[k].x, cs[k].y, cs[k].c)
        hits == {k \in 1..Len(cs) : w(k).hit}
        cells == {w(k).idx : k \in hits}
        last(i) == CHOOSE k \in hits :
                      /\ w(k).idx = i
                      /\ \A j \in hits : w(j).idx = i => j <= k
    IN [buf |-> [i \in DOMAIN m.buf |->
                   IF i \in cells THEN w(last(i)).val ELSE m.buf[i]],
        oob |-> m.oob \/ \E i \in cells : i \notin DOMAIN m.buf]

----------------------------------------------------------------------------
(* Surface accessors *)

\* surface_new: PyMem_Malloc leaves every field unset; v is what the
\* memory happens to hold
surface_new(v) ==
    [line_length |-> v, height_complement |-> v,
     offset_x |-> v, offset_y |-> v, plot_width |-> v, plot_height |-> v,
     min_x |-> v, max_x |-> v, min_y |-> v, max_y |-> v,
     start_x |-> v, end_x |-> v, start_y |-> v, end_y |-> v,
     div_x |-> <<v, 1>>, div_y |-> <<v, 1>>]

\* clip bounds that end on the last pixel inside the plot
ClipBoundsExclusive(ox, oy, w, h) ==
    [min_x |-> ox, max_x |-> ox + w - 1, min_y |-> oy, max_y |-> oy + h - 1]

\* the clip bounds surface_set_geometry derives from offset and size
ClipBounds(ox, oy, w, h) ==
    [min_x |-> ox, max_x |-> ox + w, min_y |-> oy, max_y |-> oy + h]

\* surface_set_geometry; geometry = <<offset_x, offset_y, width, height>>
surface_set_geometry(s, line_length, image_height, geometry) ==
    LET cb == ClipBounds(geometry[1], geometry[2], geometry[3], geometry[4])
    IN [s EXCEPT !.line_length = line_length,
                 !.height_complement = image_height - 1,
                 !.offset_x = geometry[1],
                 !.offset_y = geometry[2],
                 !.plot_width = geometry[3],
                 !.plot_height = geometry[4],
                 !.min_x = cb.min_x,
                 !.max_x = cb.max_x,
                 !.min_y = cb.min_y,
                 !.max_y = cb.max_y]

\* surface_set_view; axes = <<start_x, end_x, start_y, end_y>>,
\* transform = <<div_x, div_y>>
surface_set_view(s, axes, transform) ==
    [s EXCEPT !.start_x = axes[1], !.end_x = axes[2],
              !.start_y = axes[3], !.end_y = axes[4],
              !.div_x = transform[1], !.div_y = transform[2]]

\* surface_clear: memset(s.ptr, 0, line_length * (height_complement + 1))
surface_clear(s, b) ==
    [i \in DOMAIN b |->
        IF i < s.line_length * (s.height_complement + 1) THEN 0 ELSE b[i]]

----------------------------------------------------------------------------
(* The trace and bar renderers *)

\* <int>((v - start) * div) + offset
ToPixel(v, start, div, offset) ==
    IntCast((v - start) * div[1], div[2]) + offset

\* side of the marker glyph
MarkerSide == 5

line_color(color_idx) == (color_idx + 1) * 10 + 1

symbol_color(color_idx) == line_color(color_idx) + 1

\* a primitive call issued by plot or bars
Prim(p, a) == [p |-> p, a |-> a]

\* the draw_pixel calls of one primitive call
PrimCalls(q) ==
    CASE q.p = "draw_pixel" -> << Px(q.a[1], q.a[2], q.a[3]) >>
      [] q.p = "draw_line" ->
            draw_line(q.a[1], q.a[2], q.a[3], q.a[4], q.a[5])
      [] q.p = "draw_rect" ->
            draw_rect(q.a[1], q.a[2], q.a[3], q.a[4], q.a[5])
      [] q.p = "fill_rect" ->
            fill_rect(q.a[1], q.a[2], q.a[3], q.a[4], q.a[5])
      [] q.p = "draw_square" ->
            draw_square(q.a[1], q.a[2], q.a[3], q.a[4])

\* a cull of every segment with both ends outside the view
CulledOutside(s, last_x, cur_x) ==
    /\ (last_x < s.offset_x \/ last_x > s.max_x)
    /\ (cur_x < s.offset_x \/ cur_x > s.max_x)

\* the segment cull of plot: both ends left of the view, or both right
Culled(s, last_x, cur_x) ==
    \/ (last_x < s.offset_x /\ cur_x < s.offset_x)
    \/ (last_x > s.max_x /\ cur_x > s.max_x)

\* the vertex test of plot and bars
InRangeX(s, x) == x >= s.offset_x /\ x <= s.max_x

\* the loop "for i in range(1, N)" of plot from index i (0-based) on
RECURSIVE PlotLoop(_, _, _, _, _, _, _, _)
PlotLoop(s, xs, ys, i, last_x, last_y, color_idx, marker) ==
    IF i >= Len(ys) THEN <<>>
    ELSE LET cur_x == ToPixel(xs[i + 1], s.start_x, s.div_x, s.offset_x)
             cur_y == ToPixel(ys[i + 1], s.start_y, s.div_y, s.offset_y)
             drawn ==
                IF Culled(s, last_x, cur_x) THEN <<>>
                ELSE << Prim("draw_line",
                             <<last_x, last_y, cur_x, cur_y,
                               line_color(color_idx)>>) >>
                     \o (IF marker
                         THEN << Prim("draw_square",
                                      <<cur_x, cur_y, MarkerSide,
                                        symbol_color(color_idx)>>) >>
                         ELSE <<>>)
         IN drawn \o PlotLoop(s, xs, ys, i + 1, cur_x, cur_y,
                              color_idx, marker)

\* plot, after the length check: the primitive calls it issues.  x0 and y0
\* are what the reads of data_x[0] and data_y[0] returned.
plot(s, xs, ys, x0, y0, color_idx, marker) ==
    LET last_x == ToPixel(x0, s.start_x, s.div_x, s.offset_x)
        last_y == ToPixel(y0, s.start_y, s.div_y, s.offset_y)
        first == IF marker /\ InRangeX(s, last_x)
                 THEN << Prim("draw_square",
                              <<last_x, last_y, MarkerSide,
                                symbol_color(color_idx)>>) >>
                 ELSE <<>>
    IN first \o PlotLoop(s, xs, ys, 1, last_x, last_y, color_idx, marker)

\* the sample indices plot reads (0-based): index 0 unconditionally,
\* then 1 .. N-1
plot_reads(N) == <<0>> \o [k \in 1..(N - 1) |-> k]

\* bars, after the length check: the primitive calls it issues
bars(s, xs, ys, color_idx, width) ==
    LET y0 == ToPixel(0, s.start_y, s.div_y, s.offset_y)
        half == IntCast(width, 2)
        one(i) ==
            LET cur_x == ToPixel(xs[i], s.start_x, s.div_x, s.offset_x)
                cur_y == ToPixel(ys[i], s.start_y, s.div_y, s.offset_y)
            IN IF ~InRangeX(s, cur_x) THEN <<>>
               ELSE IF cur_y = y0
               THEN << Prim("draw_line",
                            <<cur_x - half, y0, cur_x + half, y0,
                              line_color(color_idx)>>) >>
               ELSE << Prim("fill_rect",
                            <<cur_x - half, Min(y0, cur_y), width,
                              Abs(cur_y - y0), line_color(color_idx)>>) >>
    IN Flatten([i \in 1..Len(ys) |-> one(i)])

----------------------------------------------------------------------------
(* Operations *)

Recorded(v) == IF trace THEN v ELSE <<>>

\* no kernel has been called and no array is held
KernelIdle ==
    /\ input = <<>>
    /\ output = <<>>
    /\ written = {}
    /\ mtx = <<>>
    /\ img = <<>>
    /\ kop = "none"
    /\ kargs = <<>>
    /\ ret = 0

\* a failed call: nothing but the outcome changes
Raise(name, a) ==
    /\ op' = name
    /\ args' = Recorded(a)
    /\ err' = "ValueError"
    /\ prims' = <<>>
    /\ calls' = <<>>
    /\ reads' = <<>>
    /\ oob' = FALSE
    /\ UNCHANGED <<surface, buf, geomSet, viewSet, cleared, trace>>
    /\ UNCHANGED kernVars

\* a drawing call that issues the primitive calls ps
Draw(name, a, ps, rd) ==
    LET cs == Flatten([k \in 1..Len(ps) |-> PrimCalls(ps[k])])
        m == ApplyCalls(surface, [buf |-> buf, oob |-> FALSE], cs)
    IN /\ buf' = m.buf
       /\ oob' = m.oob
       /\ op' = name
       /\ args' = Recorded(a)
       /\ err' = "ok"
       /\ prims' = Recorded(ps)
       /\ calls' = Recorded(cs)
       /\ reads' = Recorded(rd)
       /\ UNCHANGED <<surface, geomSet, viewSet, cleared, trace>>
       /\ UNCHANGED kernVars

NoDraw(name, a) ==
    /\ op' = name
    /\ args' = Recorded(a)
    /\ err' = "ok"
    /\ prims' = <<>>
    /\ calls' = <<>>
    /\ reads' = <<>>
    /\ oob' = FALSE
    /\ UNCHANGED trace
    /\ UNCHANGED kernVars

\* g = [line_length, image_height, geometry]; image is what the caller's
\* image holds when it is handed over
SurfaceSetGeometry(g, image) ==
    /\ surface' = surface_set_geometry(surface, g.line_length,
                                       g.image_height, g.geometry)
    /\ buf' = image
    /\ geomSet' = TRUE
    /\ cleared' = FALSE
    /\ NoDraw("surface_set_geometry", g)
    /\ UNCHANGED viewSet

SurfaceSetView(v) ==
    /\ surface' = surface_set_view(surface, v.axes, v.transform)
    /\ viewSet' = TRUE
    /\ NoDraw("surface_set_view", v)
    /\ UNCHANGED <<buf, geomSet, cleared>>

SurfaceClear ==
    /\ geomSet
    /\ buf' = surface_clear(surface, buf)
    /\ cleared' = TRUE
    /\ NoDraw("surface_clear", <<>>)
    /\ UNCHANGED <<surface, geomSet, viewSet>>

\* drawing happens on a surface whose geometry and view are set
Ready == geomSet /\ viewSet

DrawPixel(x, y, c) ==
    /\ Ready
    /\ Draw("draw_pixel", <<x, y, c>>, <<Prim("draw_pixel", <<x, y, c>>)>>,
            <<>>)

DrawLine(x1, y1, x2, y2, c) ==
    /\ Ready
    /\ Draw("draw_line", <<x1, y1, x2, y2, c>>,
            <<Prim("draw_line", <<x1, y1, x2, y2, c>>)>>, <<>>)

DrawRect(x1, y1, w, h, c) ==
    /\ Ready
    /\ Draw("draw_rect", <<x1, y1, w, h, c>>,
            <<Prim("draw_rect", <<x1, y1, w, h, c>>)>>, <<>>)

FillRect(x1, y1, w, h, c) ==
    /\ Ready
    /\ Draw("fill_rect", <<x1, y1, w, h, c>>,
            <<Prim("fill_rect", <<x1, y1, w, h, c>>)>>, <<>>)

DrawSquare(x, y, l, c) ==
    /\ Ready
    /\ Draw("draw_square", <<x, y, l, c>>,
            <<Prim("draw_square", <<x, y, l, c>>)>>, <<>>)

\* a shape check that only rejects a shorter x
ShapeMismatchShorter(xs, ys) == Len(xs) < Len(ys)

\* the shape check of plot and bars
ShapeMismatch(xs, ys) == Len(xs) # Len(ys)

\* a read of element 0 of an array: the element, or for an empty array
\* whatever lies at the array's data pointer (one of stray)
FirstRead(xs, stray) == IF Len(xs) > 0 THEN {xs[1]} ELSE stray

Plot(xs, ys, color_idx, marker, stray) ==
    /\ Ready
    /\ IF ShapeMismatch(xs, ys)
       THEN Raise("plot", <<xs, ys, color_idx, marker>>)
       ELSE \E x0 \in FirstRead(xs, stray), y0 \in FirstRead(ys, stray) :
               Draw("plot", <<xs, ys, color_idx, marker>>,
                    plot(surface, xs, ys, x0, y0, color_idx, marker),
                    plot_reads(Len(ys)))

Bars(xs, ys, color_idx, width) ==
    /\ Ready
    /\ IF ShapeMismatch(xs, ys)
       THEN Raise("bars", <<xs, ys, color_idx, width>>)
       ELSE Draw("bars", <<xs, ys, color_idx, width>>,
                 bars(surface, xs, ys, color_idx, width),
                 [k \in 1..Len(ys) |-> k - 1])

----------------------------------------------------------------------------
(* Spec: the life of a surface.  It is allocated unset; the host sets its
   geometry and view, clears it and draws, in any order and without end.
   Only the name and outcome of the last operation are recorded.  The
   plot rectangles are small, so that every image they can hold is
   reached. *)

\* what the malloc'ed surface may hold before it is set
UninitVals == {0, 3}

\* images and plot rectangles handed to surface_set_geometry: a plot
\* strictly inside the image, one reaching the image's far edges, and one
\* in an image of another size
Geometries ==
    { [line_length |-> 3, image_height |-> 3, geometry |-> <<1, 1, 1, 1>>],
      [line_length |-> 2, image_height |-> 2, geometry |-> <<0, 0, 2, 2>>],
      [line_length |-> 3, image_height |-> 2, geometry |-> <<1, 0, 1, 1>>] }

\* views handed to surface_set_view
Views ==
    { [axes |-> <<0, 4, 0, 4>>, transform |-> << <<1, 1>>, <<1, 1>> >>],
      [axes |-> <<1, 3, -1, 7>>, transform |-> << <<2, 1>>, <<1, 2>> >>] }

\* what a caller's image holds when it is handed over
FillVals == {255}

Images(line_length, image_height) ==
    {[i \in 0..(line_length * image_height - 1) |-> v] : v \in FillVals}

SmallCoords == {-1, 1, 2}

SmallSizes == {1, 3}

PixelColors == {0, 268}

\* sample arrays handed to plot and bars, of equal and of unequal length
Samples ==
    { << <<>>, <<>> >>,
      << <<0>>, <<>> >>,
      << <<1>>, <<1, 2>> >>,
      << <<0>>, <<1>> >>,
      << <<-2, 1>>, <<0, 1>> >>,
      << <<0, 3>>, <<3, 0>> >>,
      << <<1, 1>>, <<-1, 3>> >>,
      << <<-2, 3>>, <<1, 1>> >> }

Init ==
    /\ surface \in {surface_new(v) : v \in UninitVals}
    /\ buf = <<>>
    /\ geomSet = FALSE
    /\ viewSet = FALSE
    /\ cleared = FALSE
    /\ oob = FALSE
    /\ op = "surface_new"
    /\ args = <<>>
    /\ err = "ok"
    /\ prims = <<>>
    /\ calls = <<>>
    /\ reads = <<>>
    /\ trace = FALSE
    /\ KernelIdle

SetGeometry ==
    \E g \in Geometries :
        \E image \in Images(g.line_length, g.image_height) :
            SurfaceSetGeometry(g, image)

SetView == \E v \in Views : SurfaceSetView(v)

Clear == SurfaceClear

PixelStep ==
    \E x \in SmallCoords, y \in SmallCoords, c \in PixelColors :
        DrawPixel(x, y, c)

LineStep ==
    \E x1 \in {-1, 1}, y1 \in {-1, 1},
       x2 \in {-1, 2}, y2 \in {-1, 2} : DrawLine(x1, y1, x2, y2, 11)

RectStep ==
    \E x1 \in {-1, 1}, y1 \in {-1, 1},
       w \in SmallSizes, h \in SmallSizes : DrawRect(x1, y1, w, h, 12)

FillStep ==
    \E x1 \in {-1, 1}, y1 \in {-1, 1},
       w \in SmallSizes, h \in {3, 4} : FillRect(x1, y1, w, h, 11)

SquareStep ==
    \E x \in {-1, 1}, y \in {-1, 1}, l \in {2, MarkerSide} :
        DrawSquare(x, y, l, 12)

PlotStep ==
    \E d \in Samples, marker \in BOOLEAN : Plot(d[1], d[2], 0, marker, {0, 3})

BarsStep ==
    \E d \in Samples, width \in SmallSizes : Bars(d[1], d[2], 0, width)

Next ==
    \/ SetGeometry
    \/ SetView
    \/ Clear
    \/ PixelStep
    \/ LineStep
    \/ RectStep
    \/ FillStep
    \/ SquareStep
    \/ PlotStep
    \/ BarsStep

Spec == Init /\ [][Next]_vars

----------------------------------------------------------------------------
(* SpecCall: one call on a surface that has just been set up.  The surface
   is either cleared or still holds what the caller's image held.  The
   call's arguments, the primitive calls and draw_pixel calls it issues
   and the samples it reads are recorded. *)

\* samples per plot/bars call
MaxN == 2

\* the coordinates of a primitive call lie in -1 .. MaxCoord
MaxCoord == 4

\* the sequences over S of length at most n
RECURSIVE Seqs(_, _)
Seqs(S, n) ==
    IF n = 0 THEN {<<>>}
    ELSE LET shorter == Seqs(S, n - 1)
         IN shorter \cup {Append(q, a) : q \in shorter, a \in S}

\* the surface of the spec's plot scenario: image height 10, offset (0,0),
\* plot 10 x 10, axes 0..10, scale 1
Scenario ==
    [g |-> [line_length |-> 12, image_height |-> 10,
            geometry |-> <<0, 0, 10, 10>>],
     v |-> [axes |-> <<0, 10, 0, 10>>,
            transform |-> << <<1, 1>>, <<1, 1>> >>]]

\* a plot strictly inside its image; the scenario; a plot that reaches
\* the far edges of its image, with scales 1/2 and 2
CallSurfaces ==
    { [g |-> [line_length |-> 5, image_height |-> 5,
              geometry |-> <<1, 1, 2, 2>>],
       v |-> [axes |-> <<0, 2, 0, 2>>,
              transform |-> << <<1, 1>>, <<1, 1>> >>]],
      Scenario,
      [g |-> [line_length |-> 4, image_height |-> 4,
              geometry |-> <<0, 0, 4, 4>>],
       v |-> [axes |-> <<0, 8, 0, 2>>,
              transform |-> << <<1, 2>>, <<2, 1>> >>]] }

\* the surface after surface_new, surface_set_geometry, surface_set_view
SetUp(cs) ==
    surface_set_view(
        surface_set_geometry(surface_new(0), cs.g.line_length,
                             cs.g.image_height, cs.g.geometry),
        cs.v.axes, cs.v.transform)

CallCoords == -1..MaxCoord

CallSizes == 0..3

CallVals == {-1, 0, 5}

CallColorIdx == {0, 25}

InitCall ==
    \E cs \in CallSurfaces, fill \in {0, 255} :
        /\ surface = SetUp(cs)
        /\ buf = [i \in 0..(cs.g.line_length * cs.g.image_height - 1)
                   |-> fill]
        /\ geomSet = TRUE
        /\ viewSet = TRUE
        /\ cleared = (fill = 0)
        /\ oob = FALSE
        /\ op = IF fill = 0 THEN "surface_clear" ELSE "surface_set_view"
        /\ args = <<>>
        /\ err = "ok"
        /\ prims = <<>>
        /\ calls = <<>>
        /\ reads = <<>>
        /\ trace = TRUE
        /\ KernelIdle

\* no call has been made since the surface was set up or cleared
Fresh == op \in {"surface_clear", "surface_set_view"}

CallClear == ~Fresh /\ SurfaceClear

CallPixel ==
    /\ Fresh
    /\ \E x \in CallCoords, y \in CallCoords, c \in PixelColors :
          DrawPixel(x, y, c)

CallLine ==
    /\ Fresh
    /\ \E x1 \in CallCoords, y1 \in CallCoords,
          x2 \in CallCoords, y2 \in CallCoords : DrawLine(x1, y1, x2, y2, 11)

CallRect ==
    /\ Fresh
    /\ \E x1 \in CallCoords, y1 \in CallCoords,
          w \in CallSizes, h \in CallSizes : DrawRect(x1, y1, w, h, 12)

CallFill ==
    /\ Fresh
    /\ \E x1 \in CallCoords, y1 \in CallCoords,
          w \in CallSizes, h \in CallSizes : FillRect(x1, y1, w, h, 11)

CallSquare ==
    /\ Fresh
    /\ \E x \in CallCoords, y \in CallCoords, l \in {1, 2, MarkerSide} :
          DrawSquare(x, y, l, 12)

CallPlot ==
    /\ Fresh
    /\ \E xs \in Seqs(CallVals, MaxN), ys \in Seqs(CallVals, MaxN),
          ci \in CallColorIdx, marker \in BOOLEAN :
             Plot(xs, ys, ci, marker, CallVals)

CallBars ==
    /\ Fresh
    /\ \E xs \in Seqs(CallVals, MaxN), ys \in Seqs(CallVals, MaxN),
          width \in {1, 2, 3} : Bars(xs, ys, 0, width)

NextCall ==
    \/ CallClear
    \/ CallPixel
    \/ CallLine
    \/ CallRect
    \/ CallFill
    \/ CallSquare
    \/ CallPlot
    \/ CallBars

SpecCall == InitCall /\ [][NextCall]_vars

----------------------------------------------------------------------------
(* The array kernels: stack, separate, add_pixel *)

\* no surface is involved in a kernel call
SurfaceIdle ==
    /\ surface = surface_new(0)
    /\ buf = <<>>
    /\ geomSet = FALSE
    /\ viewSet = FALSE
    /\ cleared = FALSE
    /\ oob = FALSE
    /\ op = "surface_new"
    /\ args = <<>>
    /\ err = "ok"
    /\ prims = <<>>
    /\ calls = <<>>
    /\ reads = <<>>
    /\ trace = FALSE

\* the sequences over S of length exactly n
SeqsOfLen(S, n) == {q \in Seqs(S, n) : Len(q) = n}

\* a rows x cols array that holds v everywhere
Filled(rows, cols, v) == [i \in 1..rows |-> [j \in 1..cols |-> v]]

\* what a destination array holds before a kernel writes it
Stale == 77

(* stack *)

\* the instances of the fused element type y_t that are modelled
ElemTypes == {"unsigned char", "char"}

\* a sum that stops at the ends of the type's range
Saturate(t, v) ==
    IF t = "unsigned char"
    THEN Min(Max(v, 0), 255)
    ELSE Min(Max(v, -128), 127)

\* datum += v: the sum is formed in int and stored back into a y_t
Narrow(t, v) ==
    IF t = "unsigned char"
    THEN v % 256
    ELSE ((v + 128) % 256) - 128

\* <int>(j + k * stacking), stacking = S[1]/S[2]
StackIndex(j, k, S) == IntCast(j * S[2] + k * S[1], S[2])

\* datum after n rounds of the inner loop of stack for column j
RECURSIVE StackDatum(_, _, _, _, _)
StackDatum(t, row, j, S, n) ==
    IF n = 0
    THEN 0
    ELSE Narrow(t, StackDatum(t, row, j, S, n - 1)
                     + row[StackIndex(j, n - 1, S) + 1])

\* a stack that writes one column per summed term
stackTransposed(t, inp, outp, S) ==
    LET inp_len == Len(inp[1])
        outp_len == IntCast(inp_len * S[2], S[1])
        stack_height == IntCast(inp_len * S[2], S[1])
    IN [outp |-> [i \in 1..Len(outp) |-> [j \in 1..Len(outp[i]) |->
                    IF i <= Len(inp) /\ j <= outp_len
                    THEN 0
                    ELSE outp[i][j]]],
        written |-> {<<i, j>> : i \in 0..(Len(inp) - 1),
                                j \in 0..(outp_len - 1)}]

\* stack(inp, outp, stacking) for element type t: the new outp and the
\* cells it stored
stack(t, inp, outp, S) ==
    LET inp_len == Len(inp[1])
        outp_len == Min(inp_len, IntCast(S[1], S[2]))
        stack_height == IntCast(inp_len * S[2], S[1])
    IN [outp |-> [i \in 1..Len(outp) |-> [j \in 1..Len(outp[i]) |->
                    IF i <= Len(inp) /\ j <= outp_len
                    THEN StackDatum(t, inp[i], j - 1, S, stack_height)
                    ELSE outp[i][j]]],
        written |-> {<<i, j>> : i \in 0..(Len(inp) - 1),
                                j \in 0..(outp_len - 1)}]

\* input rows have at most MaxLen elements
MaxLen == 4

\* the elements of an input of type t
StackVals(t) ==
    IF t = "unsigned char" THEN {1, 100, 200} ELSE {-100, 1, 100}

\* stacking factors, as fractions
StackFactors ==
    {<<1, 2>>, <<1, 1>>, <<3, 2>>, <<2, 1>>, <<5, 2>>, <<4, 1>>}

\* q back to front
Reversed(q) == [k \in 1..Len(q) |-> q[Len(q) + 1 - k]]

\* one-row and two-row inputs of type t
StackInputs(t) ==
    UNION {{<<r>>, <<r, Reversed(r)>>} :
             r \in UNION {SeqsOfLen(StackVals(t), n) : n \in 0..MaxLen}}

InitStack ==
    /\ SurfaceIdle
    /\ \E t \in ElemTypes :
          /\ kargs = <<t>>
          /\ input \in StackInputs(t)
    /\ output = Filled(Len(input), Len(input[1]) + 1, Stale)
    /\ written = {}
    /\ mtx = <<>>
    /\ img = <<>>
    /\ kop = "none"
    /\ ret = 0

StackCall ==
    /\ kop = "none"
    /\ \E S \in StackFactors :
          LET r == stack(kargs[1], input, output, S)
          IN /\ output' = r.outp
             /\ written' = r.written
             /\ kargs' = <<kargs[1], S>>
    /\ kop' = "stack"
    /\ UNCHANGED <<input, mtx, img, ret>>
    /\ UNCHANGED surfVars

NextStack == StackCall

SpecStack == InitStack /\ [][NextStack]_vars

(* separate *)

\* an absent bound of a slice; a present bound v is <<v>>
None == <<>>

\* a column index that ignores binning
SeparateColumnUnbinned(j, outp_begin, binning) == j - outp_begin

\* (j - outp_begin) // binning
SeparateColumn(j, outp_begin, binning) == (j - outp_begin) \div binning

\* row i of outp after the inner loop of separate has run up to j = hi
RECURSIVE SeparatePart(_, _, _, _, _, _, _)
SeparatePart(inp, row, i, distance, binning, outp_begin, hi) ==
    IF hi < outp_begin
    THEN row
    ELSE [SeparatePart(inp, row, i, distance, binning, outp_begin, hi - 1)
            EXCEPT ![SeparateColumn(hi, outp_begin, binning) + 1] =
                inp[IntCast(i * distance[1] + hi * distance[2],
                            distance[2]) + 1]]

\* separate(inp, outp, distance, binning, outp_slice): the new outp and
\* the cells it stored
separate(inp, outp, distance, binning, outp_slice) ==
    LET inp_len == Len(inp)
        outp_len == Min(inp_len, IntCast(distance[1], distance[2]))
        n_parts == IntCast(inp_len * distance[2], distance[1])
        outp_begin == IF outp_slice.start # None
                      THEN outp_slice.start[1] ELSE 0
        outp_end == IF outp_slice.stop # None
                    THEN outp_slice.stop[1] ELSE outp_len
    IN [outp |-> [i \in 1..Len(outp) |->
                    IF i <= n_parts
                    THEN SeparatePart(inp, outp[i], i - 1, distance,
                                      binning, outp_begin, outp_end - 1)
                    ELSE outp[i]],
        written |-> {<<i, SeparateColumn(j, outp_begin, binning)>> :
                        i \in 0..(n_parts - 1),
                        j \in outp_begin..(outp_end - 1)}]

\* the input of separate has at most MaxSamples elements
MaxSamples == 6

\* element k of the input is SampleBase + k
SampleBase == 10

\* distances, as fractions
Distances == {<<1, 1>>, <<3, 2>>, <<2, 1>>, <<5, 2>>, <<3, 1>>, <<7, 1>>}

Binnings == {1, 2, 3}

\* the slices of a row of outp_len columns that read inside the input
Slices(outp_len) ==
    {[start |-> b, stop |-> e] :
        b \in {None} \cup {<<v>> : v \in 0..outp_len},
        e \in {None} \cup {<<v>> : v \in 0..outp_len}}

InitSeparate ==
    /\ SurfaceIdle
    /\ \E n \in 0..MaxSamples : input = [k \in 1..n |-> SampleBase + k]
    /\ output = Filled(MaxSamples + 1, MaxSamples + 1, Stale)
    /\ written = {}
    /\ mtx = <<>>
    /\ img = <<>>
    /\ kop = "none"
    /\ kargs = <<>>
    /\ ret = 0

SeparateCall ==
    /\ kop = "none"
    /\ \E distance \in Distances, binning \in Binnings :
          \E outp_slice \in Slices(Min(Len(input),
                                       IntCast(distance[1], distance[2]))) :
             LET r == separate(input, output, distance, binning, outp_slice)
             IN /\ output' = r.outp
                /\ written' = r.written
                /\ kargs' = <<distance, binning, outp_slice>>
    /\ kop' = "separate"
    /\ UNCHANGED <<input, mtx, img, ret>>
    /\ UNCHANGED surfVars

NextSeparate == SeparateCall

SpecSeparate == InitSeparate /\ [][NextSeparate]_vars

(* add_pixel *)

\* the intensity of the count before its increment
IntensityBeforeIncrement(count) ==
    UChar(IntCast(255 * (count - 1), 200 + count - 1))

\* <unsigned char>(255 - 255/(1 + 0.005 * count)); for count >= 0 the
\* double is 255*count/(200 + count) and the cast drops its fraction
Intensity(count) == UChar(IntCast(255 * count, 200 + count))

\* the loop of add_pixel over the rows of pos, from the loop state st
RECURSIVE AddPixelLoop(_, _, _, _)
AddPixelLoop(st, pos, size_x, size_y) ==
    IF pos = <<>>
    THEN st
    ELSE LET x == pos[1][1]
             y == pos[1][2]
             count == st.mtx[y + 1][x + 1] + 1
             scaled_value == Intensity(count)
         IN AddPixelLoop(
               [mtx |-> [st.mtx EXCEPT ![y + 1][x + 1] = count],
                img |-> [st.img EXCEPT
                           ![(size_y - 1 - y) * size_x + x] = scaled_value],
                max_value |-> Max(scaled_value, st.max_value)],
               Tail(pos), size_x, size_y)

\* add_pixel(mtx, pos, size_x, size_y, data_img_bits, prev_max_value),
\* m and image being the arrays the call is given
add_pixel(m, pos, size_x, size_y, image, prev_max_value) ==
    AddPixelLoop([mtx |-> m, img |-> image, max_value |-> prev_max_value],
                 pos, size_x, size_y)

\* the image of the histogram is HistWidth x HistHeight
HistWidth == 2

HistHeight == 2

\* a call adds at most MaxHits positions
MaxHits == 2

\* no cell counts more than MaxCount hits
MaxCount == 2

\* prior maxima a caller passes that no call returned
PriorVals == {0, 255}

\* what the image holds before the first call
ImageVals == {9}

\* the cells that are hit: all but the one at x = 0, y = 1
Positions ==
    {<<x, y>> : x \in 0..(HistWidth - 1), y \in 0..(HistHeight - 1)}
        \ {<<0, 1>>}

InitHist ==
    /\ SurfaceIdle
    /\ input = <<>>
    /\ output = <<>>
    /\ written = {}
    /\ mtx = Filled(HistHeight, HistWidth, 0)
    /\ \E v \in ImageVals : img = [i \in 0..(HistWidth * HistHeight - 1) |-> v]
    /\ kop = "none"
    /\ kargs = <<>>
    /\ ret \in PriorVals

\* a call of add_pixel with the positions pos and the prior maximum pm
AddPixel(pos, pm) ==
    LET r == add_pixel(mtx, pos, HistWidth, HistHeight, img, pm)
    IN /\ \A y \in 1..HistHeight, x \in 1..HistWidth :
             r.mtx[y][x] <= MaxCount
       /\ mtx' = r.mtx
       /\ img' = r.img
       /\ ret' = r.max_value
       /\ kop' = "add_pixel"
       /\ kargs' = <<pos, pm>>
       /\ UNCHANGED <<input, output, written>>
       /\ UNCHANGED surfVars

\* the caller hands the previous call's return value back in
AddPixelChained == \E pos \in Seqs(Positions, MaxHits) : AddPixel(pos, ret)

\* the caller hands in a prior maximum of its own
AddPixelUnchained ==
    \E pos \in Seqs(Positions, MaxHits), pm \in PriorVals : AddPixel(pos, pm)

NextHist == AddPixelChained \/ AddPixelUnchained

SpecHist == InitHist /\ [][NextHist]_vars

----------------------------------------------------------------------------
(* Claims about the life of a surface (Spec) *)

\* coordinates probed around the plot rectangles
ProbeCoords == -2..4

\* the machine state draw_pixel starts from
Machine == [buf |-> buf, oob |-> FALSE]

\* (x, y) lies in the clip rectangle of the surface
InClipRect(x, y) ==
    /\ surface.min_x <= x /\ x <= surface.max_x
    /\ surface.min_y <= y /\ y <= surface.max_y

\* the buffer element of row height-1-y, column x
CellOf(x, y) ==
    (surface.height_complement - y) * surface.line_length + x

DrawOps ==
    {"draw_pixel", "draw_line", "draw_rect", "fill_rect", "draw_square",
     "plot", "bars"}

\* C1: a draw_pixel call with x outside [min_x, max_x] or y outside
\* [min_y, max_y] leaves the pixel buffer unchanged; and as long as the
\* geometry has not been set again since the buffer was cleared, every
\* non-zero pixel is the cell (row height-1-y, column x) of a position
\* (x, y) inside the clip rectangle, whatever was drawn.
C1_ClipContainment ==
    /\ geomSet =>
         \A x \in ProbeCoords, y \in ProbeCoords, c \in {0, 11, 268} :
            ~InClipRect(x, y) =>
                draw_pixel(surface, Machine, x, y, c) = Machine
    /\ cleared =>
         \A idx \in DOMAIN buf :
            buf[idx] # 0 =>
               \E x \in surface.min_x..surface.max_x,
                  y \in surface.min_y..surface.max_y : idx = CellOf(x, y)

\* C1 witness: a drawing call has lit pixels of a cleared buffer and left
\* others dark
C1_Witness ==
    /\ cleared
    /\ op \in DrawOps
    /\ \E idx \in DOMAIN buf : buf[idx] # 0
    /\ \E idx \in DOMAIN buf : buf[idx] = 0

\* the fields surface_set_geometry derives the clip rectangle from, and
\* the clip rectangle
GeometryFields(s) ==
    <<s.offset_x, s.offset_y, s.plot_width, s.plot_height,
      s.min_x, s.max_x, s.min_y, s.max_y>>

GeometryInv(s) ==
    /\ s.min_x = s.offset_x
    /\ s.max_x = s.offset_x + s.plot_width
    /\ s.min_y = s.offset_y
    /\ s.max_y = s.offset_y + s.plot_height

\* C10: once surface_set_geometry has been called, every operation
\* leaves min_x = offset_x, max_x = offset_x + plot_width,
\* min_y = offset_y and max_y = offset_y + plot_height; and only
\* surface_set_geometry changes any of these eight fields.
C10_GeometryInvariant ==
    [][ /\ geomSet' => GeometryInv(surface')
        /\ GeometryFields(surface') # GeometryFields(surface) =>
              op' = "surface_set_geometry" ]_vars

\* C10 witness: the surface has been given a geometry and a view, cleared
\* and drawn on by plot
C10_Witness ==
    /\ geomSet /\ viewSet /\ cleared
    /\ op = "plot"
    /\ surface.plot_width > 0
    /\ \E idx \in DOMAIN buf : buf[idx] # 0

----------------------------------------------------------------------------
(* Claims about a single call (SpecCall) *)

\* the lit pixels of an image
Lit(b) == {i \in DOMAIN b : b[i] # 0}

\* the pixels draw_line lights on the cleared image of the surface
LineLit(x1, y1, x2, y2, c) ==
    Lit(ApplyCalls(surface, [buf |-> [i \in DOMAIN buf |-> 0], oob |-> FALSE],
                   draw_line(x1, y1, x2, y2, c)).buf)

\* the line from (x1, y1) to (x2, y2) is horizontal, vertical or exactly
\* diagonal, or its longer side is odd
NoTie(x1, y1, x2, y2) ==
    LET dx == IF x2 >= x1 THEN x2 - x1 ELSE x1 - x2
        dy == IF y2 >= y1 THEN y2 - y1 ELSE y1 - y2
    IN dx = 0 \/ dy = 0 \/ dx = dy \/ (IF dx >= dy THEN dx ELSE dy) % 2 = 1

\* C2 as stated: draw_line(a, b, c) and draw_line(b, a, c) light the same
\* set of pixels of a cleared surface, for all endpoints a and b.
C2_Symmetric ==
    (op = "draw_line" /\ cleared) =>
        Lit(buf) = LineLit(args[3], args[4], args[1], args[2], args[5])

\* C2 amended: draw_line(a, b, c) and draw_line(b, a, c) light the same set
\* of pixels of a cleared surface when the line is horizontal, vertical or
\* exactly diagonal, or when the longer of |dx| and |dy| is odd.
C2_SymmetricNoTie ==
    (op = "draw_line" /\ cleared
        /\ NoTie(args[1], args[2], args[3], args[4])) =>
        Lit(buf) = LineLit(args[3], args[4], args[1], args[2], args[5])

\* C2 witness: a general line with an odd longer side has been drawn
C2_Witness ==
    /\ op = "draw_line" /\ cleared
    /\ args[1] = 0 /\ args[2] = 0 /\ args[3] = 3 /\ args[4] = 1
    /\ Cardinality(Lit(buf)) >= 3

\* C3: a horizontal or vertical draw_line call, whichever end comes first,
\* calls draw_pixel exactly once for each position between and including
\* its ends and for no other position; a line with equal ends calls it
\* exactly once.
C3_StraightCoverage ==
    (op = "draw_line" /\ (args[1] = args[3] \/ args[2] = args[4])) =>
        LET xlo == IF args[1] <= args[3] THEN args[1] ELSE args[3]
            xhi == IF args[1] <= args[3] THEN args[3] ELSE args[1]
            ylo == IF args[2] <= args[4] THEN args[2] ELSE args[4]
            yhi == IF args[2] <= args[4] THEN args[4] ELSE args[2]
        IN /\ \A x \in xlo..xhi, y \in ylo..yhi :
                Cardinality({k \in 1..Len(calls) :
                                calls[k].x = x /\ calls[k].y = y}) = 1
           /\ \A k \in 1..Len(calls) :
                /\ xlo <= calls[k].x /\ calls[k].x <= xhi
                /\ ylo <= calls[k].y /\ calls[k].y <= yhi
           /\ (args[1] = args[3] /\ args[2] = args[4]) => Len(calls) = 1

\* C3 witness: a horizontal line given right end first has been drawn
C3_Witness ==
    /\ op = "draw_line"
    /\ args[2] = args[4]
    /\ args[1] >= args[3] + 2
    /\ Len(calls) >= 3

\* C4: plot and bars called with len(xs) # len(ys) fail with ValueError
\* and leave the pixel buffer and every surface field as they were.
C4_MismatchNoDraw ==
    [][ (op' \in {"plot", "bars"} /\ Len(args'[1]) # Len(args'[2])) =>
            /\ err' = "ValueError"
            /\ buf' = buf
            /\ surface' = surface
            /\ calls' = <<>> ]_vars

\* C4 witness: bars has failed on an image that is not blank
C4_Witness ==
    /\ op = "bars"
    /\ err = "ValueError"
    /\ Len(args[1]) > Len(args[2])
    /\ \E i \in DOMAIN buf : buf[i] # 0

\* the pixel a sample (x, y) maps to
SamplePixel(x, y) ==
    << IntCast((x - surface.start_x) * surface.div_x[1], surface.div_x[2])
         + surface.offset_x,
       IntCast((y - surface.start_y) * surface.div_y[1], surface.div_y[2])
         + surface.offset_y >>

\* C9: on the cleared scenario surface plot with xs = [0, 5], ys = [0, 5]
\* and no markers lights exactly the cells (row 9-k, column k), k = 0..5,
\* with the line colour (as a byte), and leaves every other cell zero.  In
\* general the ends of every segment plot draws are the pixels
\* (trunc((x - start_x) * div_x) + offset_x,
\*  trunc((y - start_y) * div_y) + offset_y) of consecutive samples, and
\* without markers such an end inside the clip rectangle is written at
\* row height-1-py, column px.
C9_PlotScenario ==
    /\ (/\ surface = SetUp(Scenario) /\ cleared /\ op = "plot"
        /\ args[1] = <<0, 5>> /\ args[2] = <<0, 5>> /\ args[4] = FALSE) =>
          buf = [i \in DOMAIN buf |->
                   IF \E k \in 0..5 : i = (9 - k) * surface.line_length + k
                   THEN ((args[3] + 1) * 10 + 1) % 256
                   ELSE 0]
    /\ (op = "plot" /\ err = "ok") =>
          \A j \in 1..Len(prims) :
             prims[j].p = "draw_line" =>
                LET a == prims[j].a
                IN /\ \E i \in 1..(Len(args[1]) - 1) :
                         /\ <<a[1], a[2]>>
                              = SamplePixel(args[1][i], args[2][i])
                         /\ <<a[3], a[4]>>
                              = SamplePixel(args[1][i + 1], args[2][i + 1])
                   /\ (args[4] = FALSE /\ InClipRect(a[3], a[4])
                         /\ CellOf(a[3], a[4]) \in DOMAIN buf) =>
                         buf[CellOf(a[3], a[4])] = a[5] % 256

\* C9 witness: the scenario's plot has been drawn
C9_Witness ==
    /\ surface = SetUp(Scenario) /\ cleared /\ op = "plot"
    /\ args = << <<0, 5>>, <<0, 5>>, 0, FALSE >>
    /\ Cardinality(Lit(buf)) = 6

----------------------------------------------------------------------------
(* Claims about the array kernels *)

\* the columns 0 .. n-1 of the rows of the input, as cells
Columns(n) == {<<i, j>> : i \in 0..(Len(input) - 1), j \in 0..(n - 1)}

\* C5 as stated: for an input of shape [rows, L] and stacking factor S,
\* stack writes exactly the columns 0 .. floor(L/S)-1 of every row.
C5_WidthFloor ==
    (kop = "stack") =>
        written = Columns((Len(input[1]) * kargs[2][2]) \div kargs[2][1])

\* C5 amended: for an input of shape [rows, L] and stacking factor S > 0,
\* stack writes exactly the columns 0 .. min(L, trunc(S))-1 of every row,
\* and every other cell of the output keeps what it held.
C5_WidthPeriod ==
    (kop = "stack") =>
        LET L == Len(input[1])
            tr == kargs[2][1] \div kargs[2][2]
            width == IF L < tr THEN L ELSE tr
        IN /\ written = Columns(width)
           /\ \A i \in 1..Len(output) : \A j \in 1..Len(output[i]) :
                 <<i - 1, j - 1>> \notin written => output[i][j] = Stale

\* C5 witness: a row of 4 stacked with S = 4 has 4 columns written, while
\* floor(L/S) is 1
C5_Witness ==
    /\ kop = "stack"
    /\ Len(input[1]) = 4
    /\ kargs[2] = <<4, 1>>
    /\ <<0, 3>> \in written

\* the sum of the first n terms row[floor(j + k*S)], k = 0 .. n-1
RECURSIVE TermSum(_, _, _, _)
TermSum(row, j, S, n) ==
    IF n = 0
    THEN 0
    ELSE TermSum(row, j, S, n - 1)
           + row[((j * S[2] + (n - 1) * S[1]) \div S[2]) + 1]

\* the height of the stack, floor(L/S)
Height == (Len(input[1]) * kargs[2][2]) \div kargs[2][1]

\* C6: every cell output[i][j] that stack writes holds the sum over
\* k = 0 .. floor(L/S)-1 of input[i][floor(j + k*S)] reduced modulo 2^8
\* into the range of the 8-bit element type.
C6_StridedSumWraps ==
    (kop = "stack") =>
        \A w \in written :
            LET o == output[w[1] + 1][w[2] + 1]
                s == TermSum(input[w[1] + 1], w[2], kargs[2], Height)
            IN /\ (o - s) % 256 = 0
               /\ IF kargs[1] = "unsigned char"
                  THEN 0 <= o /\ o <= 255
                  ELSE -128 <= o /\ o <= 127

\* C6 witness: a written cell of an unsigned char stack whose true sum,
\* of terms taken with a fractional stride, does not fit the type
C6_Witness ==
    /\ kop = "stack"
    /\ kargs[1] = "unsigned char"
    /\ kargs[2] = <<3, 2>>
    /\ \E w \in written :
          TermSum(input[w[1] + 1], w[2], kargs[2], Height) > 255

\* the first and one past the last column the call of separate read
SliceBegin == IF kargs[3].start = <<>> THEN 0 ELSE kargs[3].start[1]

SliceEnd ==
    IF kargs[3].stop # <<>>
    THEN kargs[3].stop[1]
    ELSE LET tr == kargs[1][1] \div kargs[1][2]
         IN IF Len(input) < tr THEN Len(input) ELSE tr

\* floor(L/D)
Parts == (Len(input) * kargs[1][2]) \div kargs[1][1]

\* C7 as stated: for every binning >= 1 and output slice, separate writes
\* exactly the rows 0 .. floor(L/D)-1, and afterwards row i, column 0
\* equals input[floor(i*D)].
C7_FirstColumn ==
    (kop = "separate") =>
        /\ {w[1] : w \in written} = 0..(Parts - 1)
        /\ \A i \in 0..(Parts - 1) :
              output[i + 1][1]
                = input[((i * kargs[1][1]) \div kargs[1][2]) + 1]

\* C7 amended: for every binning >= 1 and slice [begin, end) with
\* 0 <= begin < end <= min(L, trunc(D)), separate writes exactly the rows
\* 0 .. floor(L/D)-1, and afterwards row i, column 0 equals
\* input[floor(i*D + min(begin + binning - 1, end - 1))], the last sample
\* of the first bin; with an empty slice it writes nothing.
C7_FirstColumnLastOfBin ==
    (kop = "separate") =>
        IF SliceBegin < SliceEnd
        THEN /\ {w[1] : w \in written} = 0..(Parts - 1)
             /\ \A i \in 0..(Parts - 1) :
                   LET a == SliceBegin + kargs[2] - 1
                       b == SliceEnd - 1
                       j == IF a < b THEN a ELSE b
                   IN output[i + 1][1]
                        = input[((i * kargs[1][1] + j * kargs[1][2])
                                    \div kargs[1][2]) + 1]
        ELSE written = {} /\ output = Filled(Len(output), Len(output), Stale)

\* C7 witness: two rows written with binning 2 from column 1 on, so that
\* column 0 does not hold the first sample of its row
C7_Witness ==
    /\ kop = "separate"
    /\ kargs[2] = 2
    /\ kargs[3].start = <<1>>
    /\ <<1, 0>> \in written
    /\ output[1][1] # input[1]

\* C8: the maximum add_pixel returns is never smaller than the prior
\* maximum it was given, so a call given the previous call's return value
\* returns at least that value; a call with an empty position list returns
\* exactly the prior maximum and changes neither the count matrix nor the
\* image buffer.
C8_MaxMonotone ==
    [][ /\ ret' >= kargs'[2]
        /\ kargs'[2] = ret => ret' >= ret
        /\ kargs'[1] = <<>> =>
              /\ ret' = kargs'[2]
              /\ mtx' = mtx
              /\ img' = img ]_vars

\* C8 witness: after hits were counted, a chained call with no positions
\* has returned the maximum it was given
C8_Witness ==
    /\ kop = "add_pixel"
    /\ kargs[1] = <<>>
    /\ kargs[2] = 2
    /\ ret = 2
    /\ \E y \in 1..HistHeight, x \in 1..HistWidth : mtx[y][x] = 2

----------------------------------------------------------------------------
(* Further claims about a single call (SpecCall) *)

\* the buffer elements of the clip-visible positions of the rectangle with
\* corner (x1, y1) and size (w, h)
VisibleCells(x1, y1, w, h) ==
    {CellOf(q[1], q[2]) :
        q \in {r \in (x1..(x1 + w - 1)) \X (y1..(y1 + h - 1)) :
                  InClipRect(r[1], r[2])}} \cap DOMAIN buf

\* the pixel of sample i of the last plot or bars call
VertexPixel(i) == SamplePixel(args[1][i], args[2][i])

\* pixel column x lies in the visible range [offset_x, max_x]
Visible(x) == surface.offset_x <= x /\ x <= surface.max_x

\* C11 as stated: fill_rect(x1, y1, w, h, color) on a cleared surface sets
\* to color every clip-visible pixel (x, y) with x1 <= x <= x1+w-1 and
\* y1 <= y <= y1+h-1 and no other pixel; and bars lights, for every
\* in-view sample whose pixel row cur_y differs from the baseline row y0,
\* every clip-visible pixel in columns cur_x - width//2 ..
\* cur_x - width//2 + width - 1 and rows min(y0, cur_y) ..
\* min(y0, cur_y) + |cur_y - y0| - 1.
C11_SolidFill ==
    /\ (op = "fill_rect" /\ cleared) =>
          \A i \in DOMAIN buf :
             buf[i] = IF i \in VisibleCells(args[1], args[2], args[3], args[4])
                      THEN args[5] % 256
                      ELSE 0
    /\ (op = "bars" /\ err = "ok" /\ cleared) =>
          \A i \in 1..Len(args[1]) :
             LET cur == VertexPixel(i)
                 y0 == SamplePixel(0, 0)[2]
                 lo == IF y0 < cur[2] THEN y0 ELSE cur[2]
                 hi == IF y0 < cur[2] THEN cur[2] ELSE y0
             IN (Visible(cur[1]) /\ cur[2] # y0) =>
                   \A cell \in VisibleCells(cur[1] - (args[4] \div 2), lo,
                                            args[4], hi - lo) :
                      buf[cell] = ((args[3] + 1) * 10 + 1) % 256

\* C11 witness: fill_rect of a 2 x 3 rectangle inside the clip rectangle
\* has lit the 2 pixels of its middle row only
C11_Witness ==
    /\ op = "fill_rect" /\ cleared
    /\ args = <<1, 1, 2, 3, 11>>
    /\ Cardinality(VisibleCells(1, 1, 2, 3)) = 6
    /\ Cardinality(Lit(buf)) = 2

IsLine(q) == q.p = "draw_line"

IsSquare(q) == q.p = "draw_square"

\* the segments (i, i+1) of the last plot that do not have both ends left
\* of the view or both ends right of it
KeptSegments ==
    {i \in 1..(Len(args[1]) - 1) :
        ~ \/ (VertexPixel(i)[1] < surface.offset_x
                /\ VertexPixel(i + 1)[1] < surface.offset_x)
          \/ (VertexPixel(i)[1] > surface.max_x
                /\ VertexPixel(i + 1)[1] > surface.max_x)}

\* C12: plot issues draw_line for a consecutive pair of transformed points
\* if and only if it is not the case that both pixel x values are
\* < offset_x or both are > max_x: the draw_line calls of a plot are, in
\* order, those of the kept segments, from the pixel of sample i to the
\* pixel of sample i+1 in the line colour, with or without markers.
C12_SegmentCull ==
    (op = "plot" /\ err = "ok") =>
        LET lines == SelectSeq(prims, IsLine)
        IN /\ Len(lines) = Cardinality(KeptSegments)
           /\ \A i \in KeptSegments :
                 lines[Cardinality({j \in KeptSegments : j <= i})].a
                    = << VertexPixel(i)[1], VertexPixel(i)[2],
                         VertexPixel(i + 1)[1], VertexPixel(i + 1)[2],
                         (args[3] + 1) * 10 + 1 >>

\* C12 witness: with markers, a segment from left of the view to right of
\* it has been drawn
C12_Witness ==
    /\ op = "plot" /\ err = "ok"
    /\ args[4] = TRUE
    /\ Len(args[1]) = 2
    /\ VertexPixel(1)[1] < surface.offset_x
    /\ VertexPixel(2)[1] > surface.max_x
    /\ Len(SelectSeq(prims, IsLine)) = 1

\* C13 as stated: with markers, plot draws the glyph (side 5, colour =
\* line colour + 1) at every vertex whose pixel x lies in
\* [offset_x, max_x], the first included, and at no other vertex.
C13_MarkersInRange ==
    (op = "plot" /\ err = "ok" /\ args[4] = TRUE /\ Len(args[1]) >= 1) =>
        LET squares == SelectSeq(prims, IsSquare)
            glyph(i) == << VertexPixel(i)[1], VertexPixel(i)[2], 5,
                           (args[3] + 1) * 10 + 2 >>
        IN /\ \A i \in 1..Len(args[1]) :
                 Visible(VertexPixel(i)[1]) =>
                    \E k \in 1..Len(squares) : squares[k].a = glyph(i)
           /\ \A k \in 1..Len(squares) :
                 \E i \in 1..Len(args[1]) :
                    /\ Visible(VertexPixel(i)[1])
                    /\ squares[k].a = glyph(i)

\* C13 witness: the vertex left of the view that ends a segment from
\* inside the view has its glyph drawn, and pixels of it are visible
C13_Witness ==
    /\ op = "plot" /\ err = "ok" /\ cleared
    /\ args[4] = TRUE
    /\ Len(args[1]) = 2
    /\ Visible(VertexPixel(1)[1])
    /\ VertexPixel(2)[1] = surface.offset_x - 1
    /\ \E k \in 1..Len(prims) :
          /\ IsSquare(prims[k])
          /\ <<prims[k].a[1], prims[k].a[2]>> = VertexPixel(2)
    /\ \E y \in surface.min_y..surface.max_y :
          /\ CellOf(surface.offset_x + 1, y) \in DOMAIN buf
          /\ buf[CellOf(surface.offset_x + 1, y)]
               = ((args[3] + 1) * 10 + 2) % 256
          /\ VertexPixel(1)[1] + 2 # surface.offset_x + 1
          /\ VertexPixel(1)[1] - 2 # surface.offset_x + 1
          /\ VertexPixel(1)[2] + 2 # y
          /\ VertexPixel(1)[2] - 2 # y

Fits ==
    /\ 0 <= surface.offset_x
    /\ surface.offset_x + surface.plot_width <= surface.line_length
    /\ 0 <= surface.offset_y
    /\ surface.offset_y + surface.plot_height
          <= surface.height_complement + 1

\* C16 as stated: when the plot rectangle fits inside the image, every
\* store of draw_pixel (a call that passes the clip test), whatever
\* operation made it, lands at an index inside [0, stride*height), in
\* column x of row height-1-y.
C16_WritesInBuffer ==
    (Fits /\ op \in DrawOps /\ err = "ok") =>
        \A k \in 1..Len(calls) :
            InClipRect(calls[k].x, calls[k].y) =>
                LET idx == PixelIndex(surface, calls[k].x, calls[k].y)
                    stride == surface.line_length
                    height == surface.height_complement + 1
                IN /\ 0 <= idx /\ idx < stride * height
                   /\ idx % stride = calls[k].x
                   /\ idx \div stride = height - 1 - calls[k].y

\* C16 witness: on a surface whose plot rectangle fits and reaches the far
\* edge of the image, draw_pixel at y = max_y has stored outside the image
C16_Witness ==
    /\ Fits
    /\ op = "draw_pixel"
    /\ args[1] = 0 /\ args[2] = surface.max_y
    /\ InClipRect(args[1], args[2])
    /\ oob

\* C17 as stated: for inputs of equal length N >= 0 plot reads only sample
\* indices in [0, N-1]; with N = 0 it reads no sample and leaves the pixel
\* buffer unchanged.
C17_ReadsInRange ==
    [][ (op' = "plot" /\ err' = "ok") =>
            /\ \A k \in 1..Len(reads') :
                  0 <= reads'[k] /\ reads'[k] <= Len(args'[2]) - 1
            /\ Len(args'[2]) = 0 => (reads' = <<>> /\ buf' = buf) ]_vars

\* C17 witness: plot of empty arrays with markers has read index 0 and
\* drawn a glyph on the cleared image
C17_Witness ==
    /\ op = "plot" /\ err = "ok" /\ cleared
    /\ args[1] = <<>> /\ args[2] = <<>>
    /\ args[4] = TRUE
    /\ reads = <<0>>
    /\ Lit(buf) # {}

----------------------------------------------------------------------------
(* A further claim about add_pixel (SpecHist) *)

\* how often the position p occurs in pos
Occurrences(pos, p) == Cardinality({k \in 1..Len(pos) : pos[k] = p})

\* 255 - 255/(1 + 0.005*n) = 255 - 51000/(200 + n), without its fraction
ScaledCount(n) == 255 - ((51000 + 199 + n) \div (200 + n))

\* C15: after add_pixel has processed a position list, count_matrix[y][x]
\* has increased by the number of occurrences of (x, y) in the list; for
\* each listed (x, y) the image cell at row height-1-y, column x holds the
\* 8-bit intensity of the final count of that cell; every count cell and
\* image cell not named by a listed position is unchanged.
C15_AddPixelFrame ==
    [][ \A x \in 0..(HistWidth - 1), y \in 0..(HistHeight - 1) :
           LET n == Occurrences(kargs'[1], <<x, y>>)
               cell == (HistHeight - 1 - y) * HistWidth + x
           IN /\ mtx'[y + 1][x + 1] = mtx[y + 1][x + 1] + n
              /\ img'[cell] = IF n > 0
                              THEN ScaledCount(mtx'[y + 1][x + 1]) % 256
                              ELSE img[cell] ]_vars

\* C15 witness: a call has counted the same position twice
C15_Witness ==
    /\ kop = "add_pixel"
    /\ kargs[1] = << <<1, 1>>, <<1, 1>> >>
    /\ mtx[2][2] = 2
    /\ img[1] = 2
    /\ img[3] = 9

====
